---------------------------- MODULE Spec2Model ----------------------------
(***************************************************************************)
(* AutoScope (src/autoscope.py): a fixed pipeline of seven reconnaissance  *)
(* modules, each wrapping one external tool, run in sequence over one      *)
(* working directory, followed by a report over the directory's *.txt      *)
(* files.                                                                  *)
(*                                                                         *)
(* Environment: whether a tool is on PATH, how a subprocess ends and what  *)
(* it prints are chosen when the code asks (each tool is probed once per   *)
(* run).  The model follows the program's own reads and writes of the      *)
(* working directory; files an external tool may write of its own accord   *)
(* (its -o option) are outside it.  Directory listing order (glob) is      *)
(* taken as one fixed order, TxtFiles.                                     *)
(***************************************************************************)
EXTENDS Integers, Sequences, FiniteSets, TLC

VARIABLES
    args,       \* the parsed command line
    fs0,        \* the working directory as the run found it
    pc,         \* where main is: start, loop, report, done, aborted, blocked
    modules,    \* the module list after the filters
    idx,        \* the next module of the list
    fs,         \* the working directory: path -> absent, directory or file
    results,    \* what each module's execute() returned
    invoked,    \* the modules whose execute() was called, in call order
    on_path,    \* whether the tool of the module just executed is on PATH
    out,        \* the lines the latest step printed
    launched,   \* the subprocesses the latest step launched
    output_dirs \* target -> working directory, over runs on one output base

vars ==
    <<args, fs0, pc, modules, idx, fs, results, invoked, on_path, out, launched,
      output_dirs>>

(***************************************************************************)
(* Bounds of the model                                                     *)
(***************************************************************************)
\* most lines a probe (httpx) prints, hence most URLs js_discovery fetches
MaxLines == 3
\* longest target string given on the command line
MaxTargetLen == 3
\* most runs of the program over one output base
MaxRuns == 2

(***************************************************************************)
(* Program constants                                                       *)
(***************************************************************************)
FastTimeout == 60
DefaultTimeout == 300
FastPortMax == 1000
FullPortMax == 65535
\* subprocess.run(...) without a timeout argument: timeout=None
NoTimeout == 0

ModuleNames ==
    <<"subdomain", "ports", "http_probe", "js_discovery",
      "dir_bruteforce", "param_discovery", "screenshot">>

ReportFormats == {"md", "json", "csv"}

\* the plaintext files of the working directory, in listing order
TxtFiles ==
    <<"subs.txt", "ports.txt", "httpx.txt", "tech.txt",
      "endpoints.txt", "dirs.txt", "params.txt">>

WorkDir == "."
ScreenshotDir == "screenshots"
ScreenshotReport == "screenshots/report.html"

ReportFile(format) == "report." \o format

Range(s) == {s[i] : i \in 1..Len(s)}

Paths ==
    {WorkDir, ScreenshotDir, ScreenshotReport}
        \cup Range(TxtFiles) \cup {ReportFile(f) : f \in ReportFormats}

\* output_file of each module class
output_file(name) ==
    CASE name = "subdomain"       -> "subs.txt"
      [] name = "ports"           -> "ports.txt"
      [] name = "http_probe"      -> "httpx.txt"
      [] name = "js_discovery"    -> "endpoints.txt"
      [] name = "dir_bruteforce"  -> "dirs.txt"
      [] name = "param_discovery" -> "params.txt"
      [] name = "screenshot"      -> ScreenshotDir

(***************************************************************************)
(* The working directory                                                   *)
(***************************************************************************)
Absent == [kind |-> "absent", data |-> <<>>]
Dir == [kind |-> "dir", data |-> <<>>]
File(text) == [kind |-> "file", data |-> text]

\* os.path.exists
exists(fsys, p) == fsys[p].kind # "absent"

\* os.path.getsize of a regular file: only its being zero matters
getsize(fsys, p) == Len(fsys[p].data)

\* open(p, 'w'); f.write(text)
WriteFile(fsys, p, text) == [fsys EXCEPT ![p] = File(text)]

\* mkdir(parents=True, exist_ok=True) / os.makedirs(exist_ok=True)
MakeDir(fsys, p) == IF exists(fsys, p) THEN fsys ELSE [fsys EXCEPT ![p] = Dir]

EmptyDisk == [p \in Paths |-> Absent]

(***************************************************************************)
(* Printed lines                                                           *)
(***************************************************************************)
Line(level, text) == [level |-> level, text |-> text]


CheckToolLine(tool) == Line("ERROR", tool \o " not found")
InstallLine(tool) == Line("ERROR", "Install " \o tool)
StartLine(name) == Line("INFO", "Executing module: " \o name)
NonZeroLine(name) == Line("ERROR", "in " \o name)
TimeoutLine(name) == Line("ERROR", "Timeout in " \o name)
FailureLine(name) == Line("ERROR", "Failure in " \o name)
CompletedLine(name) == Line("SUCCESS", "Completed " \o name)
SkipLine(file) == Line("INFO", "Skipping: " \o file \o " not found")
BannerLine == Line("SUCCESS", "AutoScope scan completed!")
ProfileErrorLine == Line("ERROR", "Cannot use --fast and --deep together")

(***************************************************************************)
(* What the environment can answer                                         *)
(***************************************************************************)
\* how a subprocess under run_cmd ends: exit status zero, exit status
\* non-zero, the timeout expires, subprocess.run raises something else, or
\* it exits zero and opening the destination file raises
RunKinds == {"zero", "nonzero", "timeout", "fault", "write_fault"}

\* the lines a tool prints, each line a sequence of whitespace-separated tokens
\* a probe listing: a bare .js URL, a URL with its technology tag, a URL
\* whose tag itself ends in .js; httpx prints its first k lines, k <= MaxLines
HttpxLine(i) ==
    CASE i % 3 = 1 -> <<"http://t/app.js">>
      [] i % 3 = 2 -> <<"http://t", "nginx">>
      [] i % 3 = 0 -> <<"http://t/x", "Node.js">>

\* subfinder and httpx may exit zero having printed nothing; the other
\* tools are taken to print one line when they exit zero
Stdout(tool) ==
    CASE tool = "httpx"     -> {[i \in 1..k |-> HttpxLine(i)] : k \in 0..MaxLines}
      [] tool = "subfinder" -> {<<>>, <<<<"sub.t">>>>}
      [] OTHER              -> {<<<<tool \o "-line">>>>}

\* a finished subprocess as run_cmd sees it
ToolRuns(tool) ==
    {[kind |-> "zero", stdout |-> t] : t \in Stdout(tool)}
        \cup {[kind |-> k, stdout |-> <<>>] : k \in RunKinds \ {"zero"}}

(***************************************************************************)
(* BaseModule                                                              *)
(***************************************************************************)
\* what a call leaves behind: its return value, the working directory, the
\* lines printed, the subprocesses launched, and whether it returned at all
Effect(ret, fsys, printed, procs) ==
    [ret |-> ret, fs |-> fsys, out |-> printed, launched |-> procs,
     returned |-> TRUE]

\* one subprocess.run: the command, the timeout passed, how it ended and the
\* standard output captured
Launch(cmd, timeout, kind, stdout) ==
    [cmd |-> cmd, timeout |-> timeout, outcome |-> kind, stdout |-> stdout]

Cmd(tool, opts) == [tool |-> tool, opts |-> opts]

\* BaseModule.check_tool: shutil.which(tool) is not None
check_tool(present) == present

\* run_cmd with the file written before the exit status is looked at
run_cmd_writes_first(name, cmd, outfile_path, config, r, fsys) ==
    LET proc == <<Launch(cmd, config.timeout, r.kind, r.stdout)>>
        written == WriteFile(fsys, outfile_path, r.stdout)
    IN
    CASE r.kind = "timeout" -> Effect(FALSE, fsys, <<TimeoutLine(name)>>, proc)
      [] r.kind \in {"fault", "write_fault"} ->
            Effect(FALSE, fsys, <<FailureLine(name)>>, proc)
      [] r.kind = "nonzero" -> Effect(FALSE, written, <<NonZeroLine(name)>>, proc)
      [] r.kind = "zero"    -> Effect(TRUE, written, <<CompletedLine(name)>>, proc)

\* run_cmd removing the destination file when the command does not succeed
run_cmd_removes_on_failure(name, cmd, outfile_path, config, r, fsys) ==
    LET proc == <<Launch(cmd, config.timeout, r.kind, r.stdout)>>
        removed == [fsys EXCEPT ![outfile_path] = Absent]
    IN
    CASE r.kind = "timeout" -> Effect(FALSE, removed, <<TimeoutLine(name)>>, proc)
      [] r.kind \in {"fault", "write_fault"} ->
            Effect(FALSE, removed, <<FailureLine(name)>>, proc)
      [] r.kind = "nonzero" -> Effect(FALSE, removed, <<NonZeroLine(name)>>, proc)
      [] r.kind = "zero"    ->
            Effect(TRUE, WriteFile(fsys, outfile_path, r.stdout),
                   <<CompletedLine(name)>>, proc)

\* run_cmd with "except Exception" ahead of "except subprocess.TimeoutExpired"
run_cmd_generic_first(name, cmd, outfile_path, config, r, fsys) ==
    LET proc == <<Launch(cmd, config.timeout, r.kind, r.stdout)>> IN
    CASE r.kind \in {"timeout", "fault", "write_fault"} ->
            Effect(FALSE, fsys, <<FailureLine(name)>>, proc)
      [] r.kind = "nonzero" -> Effect(FALSE, fsys, <<NonZeroLine(name)>>, proc)
      [] r.kind = "zero"    ->
            Effect(TRUE, WriteFile(fsys, outfile_path, r.stdout),
                   <<CompletedLine(name)>>, proc)

\* run_cmd without its "except Exception" clause: the exception leaves
\* run_cmd and execute(), and main with them
run_cmd_no_generic_handler(name, cmd, outfile_path, config, r, fsys) ==
    LET proc == <<Launch(cmd, config.timeout, r.kind, r.stdout)>> IN
    CASE r.kind = "timeout" -> Effect(FALSE, fsys, <<TimeoutLine(name)>>, proc)
      [] r.kind \in {"fault", "write_fault"} ->
            [ret |-> FALSE, fs |-> fsys, out |-> <<>>, launched |-> proc,
             returned |-> FALSE]
      [] r.kind = "nonzero" -> Effect(FALSE, fsys, <<NonZeroLine(name)>>, proc)
      [] r.kind = "zero"    ->
            Effect(TRUE, WriteFile(fsys, outfile_path, r.stdout),
                   <<CompletedLine(name)>>, proc)

\* BaseModule.run_cmd
run_cmd(name, cmd, outfile_path, config, r, fsys) ==
    LET proc == <<Launch(cmd, config.timeout, r.kind, r.stdout)>> IN
    CASE r.kind = "timeout" -> Effect(FALSE, fsys, <<TimeoutLine(name)>>, proc)
      [] r.kind \in {"fault", "write_fault"} ->
            Effect(FALSE, fsys, <<FailureLine(name)>>, proc)
      [] r.kind = "nonzero" -> Effect(FALSE, fsys, <<NonZeroLine(name)>>, proc)
      [] r.kind = "zero"    ->
            Effect(TRUE, WriteFile(fsys, outfile_path, r.stdout),
                   <<CompletedLine(name)>>, proc)

ToolMissing(tool, fsys) ==
    Effect(FALSE, fsys, <<CheckToolLine(tool), InstallLine(tool)>>, <<>>)

(***************************************************************************)
(* The modules without an upstream file                                    *)
(***************************************************************************)
\* SubdomainModule.execute
SubdomainModule_execute(config, present, r, fsys) ==
    IF ~check_tool(present) THEN ToolMissing("subfinder", fsys)
    ELSE run_cmd("subdomain",
                 Cmd("subfinder", IF config.deep THEN <<"-all">> ELSE <<>>),
                 output_file("subdomain"), config, r, fsys)

\* the range PortsModule.execute passes to naabu -p
port_range(config) ==
    IF config.fast THEN <<1, FastPortMax>> ELSE <<1, FullPortMax>>

\* PortsModule.execute
PortsModule_execute(config, present, r, fsys) ==
    IF ~check_tool(present) THEN ToolMissing("naabu", fsys)
    ELSE run_cmd("ports", Cmd("naabu", port_range(config)),
                 output_file("ports"), config, r, fsys)

\* ParamDiscoveryModule.execute
ParamDiscoveryModule_execute(config, present, r, fsys) ==
    IF ~check_tool(present) THEN ToolMissing("arjun", fsys)
    ELSE run_cmd("param_discovery", Cmd("arjun", <<>>),
                 output_file("param_discovery"), config, r, fsys)

\* DirBruteforceModule.execute; wordlist: os.path.exists of the fixed path
DirBruteforceModule_execute(config, present, wordlist, r, fsys) ==
    IF ~check_tool(present) THEN ToolMissing("ffuf", fsys)
    ELSE IF ~wordlist
         THEN Effect(FALSE, fsys, <<Line("ERROR", "Wordlist not found")>>, <<>>)
         ELSE run_cmd("dir_bruteforce", Cmd("ffuf", <<>>),
                      output_file("dir_bruteforce"), config, r, fsys)


(***************************************************************************)
(* The modules that read an upstream file                                  *)
(***************************************************************************)
\* the extraction taking parts[0], the URL, for the tag
TechLines_first_token(text) ==
    LET tagged == SelectSeq(text, LAMBDA l : Len(l) > 1)
    IN  [i \in 1..Len(tagged) |-> <<tagged[i][1]>>]

\* line.split() with more than one part: parts[1], one per line of tech.txt
TechLines(text) ==
    LET tagged == SelectSeq(text, LAMBDA l : Len(l) > 1)
    IN  [i \in 1..Len(tagged) |-> <<tagged[i][2]>>]

\* how the extraction pass can end: it completes, open() raises (tech.txt
\* untouched), or a write raises after open(tech_file, 'w') truncated it
TechFaults == {"none", "open", "write"}

\* HttpProbeModule.execute
\* HttpProbeModule.execute without the test for subs.txt
HttpProbeModule_execute_no_input_check(config, present, r, techFault, fsys) ==
    IF ~check_tool(present) THEN ToolMissing("httpx", fsys)
    ELSE
        LET outfile == output_file("http_probe")
            probe == run_cmd("http_probe", Cmd("httpx", <<>>), outfile,
                             config, r, fsys)
            failed == Line("ERROR", "Tech extraction failed")
        IN  IF ~probe.ret THEN probe
            ELSE CASE techFault = "open" ->
                        Effect(FALSE, probe.fs, probe.out \o <<failed>>,
                               probe.launched)
                   [] techFault = "write" ->
                        Effect(FALSE, WriteFile(probe.fs, "tech.txt", <<>>),
                               probe.out \o <<failed>>, probe.launched)
                   [] techFault = "none" ->
                        Effect(TRUE,
                               WriteFile(probe.fs, "tech.txt",
                                         TechLines(probe.fs[outfile].data)),
                               probe.out
                                 \o <<Line("SUCCESS", "Tech detection saved")>>,
                               probe.launched)

HttpProbeModule_execute(config, present, r, techFault, fsys) ==
    IF ~check_tool(present) THEN ToolMissing("httpx", fsys)
    ELSE IF ~exists(fsys, "subs.txt")
         THEN Effect(FALSE, fsys, <<SkipLine("subs.txt")>>, <<>>)
         ELSE
            LET outfile == output_file("http_probe")
                probe == run_cmd("http_probe", Cmd("httpx", <<>>), outfile,
                                 config, r, fsys)
                failed == Line("ERROR", "Tech extraction failed")
            IN  IF ~probe.ret THEN probe
                ELSE CASE techFault = "open" ->
                            Effect(FALSE, probe.fs, probe.out \o <<failed>>,
                                   probe.launched)
                       [] techFault = "write" ->
                            Effect(FALSE, WriteFile(probe.fs, "tech.txt", <<>>),
                                   probe.out \o <<failed>>, probe.launched)
                       [] techFault = "none" ->
                            Effect(TRUE,
                                   WriteFile(probe.fs, "tech.txt",
                                             TechLines(probe.fs[outfile].data)),
                                   probe.out
                                     \o <<Line("SUCCESS", "Tech detection saved")>>,
                                   probe.launched)

\* str.endswith('.js') over the tokens the model knows
EndsWithJs(tok) == tok \in {"http://t/app.js", "Node.js"}

\* line.strip().endswith('.js'): the line's last token decides
IsJsLine(l) == Len(l) > 0 /\ EndsWithJs(l[Len(l)])

\* re.findall(r'[/\w-]+\?\w+=', body) over the tokens the model knows
IsEndpoint(tok) == tok \in {"/api?id=", "/v1/user?q="}
findall(body) == SelectSeq(body, IsEndpoint)

\* one curl -s <url>: it returns (any exit status) with a body, subprocess.run
\* raises, or it never returns (no timeout is passed)
CurlBodies ==
    {<<>>, <<"/api?id=", "text", "/api?id=">>, <<"/v1/user?q=", "/api?id=">>}

CurlRuns ==
    {[kind |-> "done", body |-> b] : b \in CurlBodies}
        \cup {[kind |-> k, body |-> <<>>] : k \in {"fault", "hang"}}

RECURSIVE Flatten(_)
Flatten(ss) == IF ss = <<>> THEN <<>> ELSE Head(ss) \o Flatten(Tail(ss))

\* every way of listing a set: '\n'.join(set(endpoints)) fixes no order
Listings(S) ==
    {q \in [1..Cardinality(S) -> S] : \A i, j \in DOMAIN q : i # j => q[i] # q[j]}

\* the URLs JsDiscoveryModule.execute fetches: the lines of httpx.txt ending in .js
js_urls(fsys) == SelectSeq(fsys["httpx.txt"].data, IsJsLine)

\* the endpoints list with "except: break": a raising fetch ends the batch
js_endpoints_stop_at_fault(c) ==
    LET faults == {i \in 1..Len(c) : c[i].kind = "fault"}
        lim == IF faults = {} THEN Len(c)
               ELSE (CHOOSE i \in faults : \A j \in faults : i <= j) - 1
    IN  Flatten([i \in 1..lim |->
                    IF c[i].kind = "done" THEN findall(c[i].body) ELSE <<>>])

\* the endpoints list it builds; c[i] is how the fetch of the i-th URL ends
js_endpoints(c) ==
    Flatten([i \in 1..Len(c) |->
                IF c[i].kind = "done" THEN findall(c[i].body) ELSE <<>>])

\* JsDiscoveryModule.execute; listing is the order set() yields the endpoints in
JsDiscoveryModule_execute(config, present, c, listing, fsys) ==
    IF ~check_tool(present)
    THEN ToolMissing("curl", fsys)
    ELSE IF ~exists(fsys, "httpx.txt")
         THEN Effect(FALSE, fsys, <<SkipLine("httpx.txt")>>, <<>>)
         ELSE
            LET urls == js_urls(fsys)
                n == Len(urls)
                hung == {i \in 1..n : c[i].kind = "hang"}
                last == IF hung = {} THEN n
                        ELSE CHOOSE i \in hung : \A j \in hung : i <= j
                procs == [i \in 1..last |->
                            Launch(Cmd("curl", urls[i]), NoTimeout, c[i].kind,
                                   c[i].body)]
                endpoints == js_endpoints(c)
                found == Line("SUCCESS",
                              "Found " \o ToString(Len(endpoints)) \o " endpoints")
            IN  IF hung # {}
                THEN [ret |-> FALSE, fs |-> fsys, out |-> <<>>,
                      launched |-> procs, returned |-> FALSE]
                ELSE Effect(Len(endpoints) > 0,
                            WriteFile(fsys, output_file("js_discovery"),
                                      [i \in 1..Len(listing) |-> <<listing[i]>>]),
                            <<found>>, procs)

\* ScreenshotModule.execute with os.makedirs ahead of the tool check
ScreenshotModule_execute_mkdir_first(config, present, r, fsys) ==
    LET made == MakeDir(fsys, output_file("screenshot")) IN
    IF ~check_tool(present) THEN ToolMissing("gowitness", made)
    ELSE IF ~exists(made, "httpx.txt")
         THEN Effect(FALSE, made, <<SkipLine("httpx.txt")>>, <<>>)
         ELSE run_cmd("screenshot", Cmd("gowitness", <<>>), ScreenshotReport,
                      config, r, made)

\* ScreenshotModule.execute
ScreenshotModule_execute(config, present, r, fsys) ==
    IF ~check_tool(present) THEN ToolMissing("gowitness", fsys)
    ELSE
        LET made == MakeDir(fsys, output_file("screenshot")) IN
        IF ~exists(made, "httpx.txt")
        THEN Effect(FALSE, made, <<SkipLine("httpx.txt")>>, <<>>)
        ELSE run_cmd("screenshot", Cmd("gowitness", <<>>), ScreenshotReport,
                     config, r, made)


(***************************************************************************)
(* generate_report                                                         *)
(***************************************************************************)
\* pathlib's file.stem of a *.txt name
Stem(p) ==
    CASE p = "subs.txt"      -> "subs"
      [] p = "ports.txt"     -> "ports"
      [] p = "httpx.txt"     -> "httpx"
      [] p = "tech.txt"      -> "tech"
      [] p = "endpoints.txt" -> "endpoints"
      [] p = "dirs.txt"      -> "dirs"
      [] p = "params.txt"    -> "params"

EmptyMarker == <<<<"Empty - Module Failed or Skipped">>>>

\* output_dir.glob('*.txt')
glob_txt(fsys) == SelectSeq(TxtFiles, LAMBDA p : exists(fsys, p))

\* Section without the zero-byte test
Section_no_marker(fsys, p) == [stem |-> Stem(p), body |-> fsys[p].data]

\* the section written for one file
Section(fsys, p) ==
    [stem |-> Stem(p),
     body |-> IF getsize(fsys, p) = 0 THEN EmptyMarker ELSE fsys[p].data]

\* generate_report(output_dir, format)
generate_report(fsys, format) ==
    LET files == glob_txt(fsys)
        sections == [i \in 1..Len(files) |-> Section(fsys, files[i])]
    IN  Effect(TRUE, WriteFile(fsys, ReportFile(format), sections),
               <<Line("INFO", "Report generated")>>, <<>>)

(***************************************************************************)
(* main                                                                    *)
(***************************************************************************)
\* Config with the timeout not following the profile
Config_fixed_timeout(a) ==
    [fast |-> a.fast, deep |-> a.deep, timeout |-> DefaultTimeout]

\* config = {'fast': ..., 'deep': ..., 'timeout': 60 if args.fast else 300}
Config(a) ==
    [fast |-> a.fast, deep |-> a.deep,
     timeout |-> IF a.fast THEN FastTimeout ELSE DefaultTimeout]

\* the --only-subdomains filter left out
only_subdomains_filter_ignored(a, ms) == ms

\* the three list comprehensions that filter the module list
only_subdomains_filter(a, ms) ==
    IF a.only_subdomains THEN SelectSeq(ms, LAMBDA m : m = "subdomain") ELSE ms

\* the --no-dirs filter testing for the wrong class
no_dirs_filter_wrong_class(a, ms) ==
    IF a.no_dirs THEN SelectSeq(ms, LAMBDA m : m # "param_discovery") ELSE ms

no_dirs_filter(a, ms) ==
    IF a.no_dirs THEN SelectSeq(ms, LAMBDA m : m # "dir_bruteforce") ELSE ms

no_screenshots_filter(a, ms) ==
    IF a.no_screenshots THEN SelectSeq(ms, LAMBDA m : m # "screenshot") ELSE ms

SelectedModules(a) ==
    no_screenshots_filter(a, no_dirs_filter(a, only_subdomains_filter(a, ModuleNames)))

\* main without the profile check
ProfileConflict_unchecked(a) == FALSE

\* if args.fast and args.deep: return
ProfileConflict(a) == a.fast /\ a.deep

Args ==
    [fast : BOOLEAN, deep : BOOLEAN, only_subdomains : BOOLEAN,
     no_dirs : BOOLEAN, no_screenshots : BOOLEAN, report : ReportFormats]

\* what an earlier run against the same target may have left behind
OldRun ==
    [EmptyDisk EXCEPT
        ![WorkDir] = Dir,
        !["subs.txt"] = File(<<<<"old.t">>>>),
        !["ports.txt"] = File(<<>>),
        !["httpx.txt"] = File(<<<<"http://t/app.js">>>>),
        !["report.md"] = File(<<>>)]

InitialDisks == {EmptyDisk, OldRun}

NoResults == [m \in Range(ModuleNames) |-> "none"]

Init ==
    /\ args \in Args
    /\ fs0 \in InitialDisks
    /\ fs = fs0
    /\ pc = "start"
    /\ modules = <<>>
    /\ idx = 1
    /\ results = NoResults
    /\ invoked = <<>>
    /\ on_path = TRUE
    /\ out = <<>>
    /\ launched = <<>>
    /\ output_dirs = {}

\* main up to the loop: the profile check, the seven constructors (each
\* mkdir's the working directory), the filters
Start ==
    /\ pc = "start"
    /\ IF ProfileConflict(args)
       THEN /\ pc' = "aborted"
            /\ out' = <<ProfileErrorLine>>
            /\ UNCHANGED <<modules, fs>>
       ELSE /\ modules' = SelectedModules(args)
            /\ fs' = MakeDir(fs, WorkDir)
            /\ out' = <<>>
            /\ pc' = IF SelectedModules(args) = <<>> THEN "report" ELSE "loop"
    /\ launched' = <<>>
    /\ UNCHANGED <<args, fs0, idx, results, invoked, on_path, output_dirs>>

\* one turn of "for module in modules": the start notice, then execute()
Turn(name, present, eff) ==
    /\ invoked' = Append(invoked, name)
    /\ on_path' = present
    /\ fs' = eff.fs
    /\ out' = <<StartLine(name)>> \o eff.out
    /\ launched' = eff.launched
    /\ IF eff.returned
       THEN /\ results' = [results EXCEPT ![name] = IF eff.ret THEN "ok" ELSE "fail"]
            /\ idx' = idx + 1
            /\ pc' = IF idx + 1 > Len(modules) THEN "report" ELSE "loop"
       ELSE /\ pc' = "blocked"
            /\ UNCHANGED <<results, idx>>
    /\ UNCHANGED <<args, fs0, modules, output_dirs>>

AtModule(name) == pc = "loop" /\ idx <= Len(modules) /\ modules[idx] = name

Subdomain ==
    /\ AtModule("subdomain")
    /\ \E present \in BOOLEAN, r \in ToolRuns("subfinder") :
          Turn("subdomain", present,
               SubdomainModule_execute(Config(args), present, r, fs))

Ports ==
    /\ AtModule("ports")
    /\ \E present \in BOOLEAN, r \in ToolRuns("naabu") :
          Turn("ports", present,
               PortsModule_execute(Config(args), present, r, fs))

HttpProbe ==
    /\ AtModule("http_probe")
    /\ \E present \in BOOLEAN, r \in ToolRuns("httpx"), techFault \in TechFaults :
          Turn("http_probe", present,
               HttpProbeModule_execute(Config(args), present, r, techFault, fs))

JsDiscovery ==
    /\ AtModule("js_discovery")
    /\ \E present \in BOOLEAN :
       \E c \in [1..(IF exists(fs, "httpx.txt") THEN Len(js_urls(fs)) ELSE 0)
                    -> CurlRuns] :
       \E listing \in Listings(Range(js_endpoints(c))) :
          Turn("js_discovery", present,
               JsDiscoveryModule_execute(Config(args), present, c, listing, fs))

DirBruteforce ==
    /\ AtModule("dir_bruteforce")
    /\ \E present \in BOOLEAN, wordlist \in BOOLEAN, r \in ToolRuns("ffuf") :
          Turn("dir_bruteforce", present,
               DirBruteforceModule_execute(Config(args), present, wordlist, r, fs))

ParamDiscovery ==
    /\ AtModule("param_discovery")
    /\ \E present \in BOOLEAN, r \in ToolRuns("arjun") :
          Turn("param_discovery", present,
               ParamDiscoveryModule_execute(Config(args), present, r, fs))

Screenshot ==
    /\ AtModule("screenshot")
    /\ \E present \in BOOLEAN, r \in ToolRuns("gowitness") :
          Turn("screenshot", present,
               ScreenshotModule_execute(Config(args), present, r, fs))

\* the end of main: generate_report(output_dir, args.report), then
\* print("[SUCCESS] AutoScope scan completed!")
Finish ==
    /\ pc = "report"
    /\ LET eff == generate_report(fs, args.report)
       IN  /\ fs' = eff.fs
           /\ out' = eff.out \o <<BannerLine>>
           /\ launched' = eff.launched
    /\ on_path' = TRUE
    /\ pc' = "done"
    /\ UNCHANGED <<args, fs0, modules, idx, results, invoked, output_dirs>>

Next ==
    \/ Start
    \/ Subdomain
    \/ Ports
    \/ HttpProbe
    \/ JsDiscovery
    \/ DirBruteforce
    \/ ParamDiscovery
    \/ Screenshot
    \/ Finish

Spec == Init /\ [][Next]_vars

\* main runs on: a step that is possible is eventually taken
FairSpec == Spec /\ WF_vars(Next)

(***************************************************************************)
(* The working directory of a target (main, line 212)                      *)
(***************************************************************************)
\* the characters of a target: a letter, the dot, the underscore
TargetChars == {"a", ".", "_"}

\* args.target: the non-empty strings of up to MaxTargetLen characters
Targets == UNION {[1..n -> TargetChars] : n \in 1..MaxTargetLen}

\* str.replace('.', '_'): every dot becomes an underscore
replace_dots(t) == [i \in DOMAIN t |-> IF t[i] = "." THEN "_" ELSE t[i]]

\* args.output (its default), the same for every run considered
OutputBase == "output"

\* pathlib.Path(args.output) / args.target.replace('.', '_')
output_dir(base, target) == <<base, replace_dots(target)>>

TargetInit ==
    /\ args = [fast |-> FALSE, deep |-> FALSE, only_subdomains |-> FALSE,
               no_dirs |-> FALSE, no_screenshots |-> FALSE, report |-> "md"]
    /\ fs0 = EmptyDisk
    /\ fs = EmptyDisk
    /\ pc = "start"
    /\ modules = <<>>
    /\ idx = 1
    /\ results = NoResults
    /\ invoked = <<>>
    /\ on_path = TRUE
    /\ out = <<>>
    /\ launched = <<>>
    /\ output_dirs = {}

\* one more run of main, up to line 212, against some target
ComputeOutputDir ==
    /\ Cardinality(output_dirs) < MaxRuns
    /\ \E t \in Targets :
          output_dirs' = output_dirs \cup {<<t, output_dir(OutputBase, t)>>}
    /\ UNCHANGED <<args, fs0, pc, modules, idx, fs, results, invoked, on_path,
                   out, launched>>

TargetNext == ComputeOutputDir

\* runs of main against several targets, seen only up to line 212
TargetSpec == TargetInit /\ [][TargetNext]_vars


(***************************************************************************)
(* Vocabulary of the properties                                            *)
(***************************************************************************)
ValidFlags == ~(args.fast /\ args.deep)

IsPrefix(s, t) == Len(s) <= Len(t) /\ \A i \in 1..Len(s) : s[i] = t[i]

Printed(lines, l) == \E i \in DOMAIN lines : lines[i] = l

\* the modules the flags leave, stated per module
Kept(m) ==
    IF args.only_subdomains THEN m = "subdomain"
    ELSE /\ (m = "dir_bruteforce" => ~args.no_dirs)
         /\ (m = "screenshot" => ~args.no_screenshots)

ExpectedModules == SelectSeq(ModuleNames, Kept)

\* the file run_cmd is told to write for a module
Destination(m) == IF m = "screenshot" THEN ScreenshotReport ELSE output_file(m)

\* the upstream file a module reads
Upstream(m) == IF m = "http_probe" THEN "subs.txt" ELSE "httpx.txt"

DependentModules == {"http_probe", "js_discovery", "screenshot"}

\* this step ran execute() of modules[idx]
Executes == invoked' # invoked

StartedEmpty == \A p \in Paths \ {WorkDir} : ~exists(fs0, p)

TxtPresent == {p \in Range(TxtFiles) : exists(fs, p)}

TheReport == fs[ReportFile(args.report)]

(***************************************************************************)
(* C1                                                                      *)
(***************************************************************************)
\* C1: in every run with a valid flag combination each module the flags
\* leave has execute() invoked exactly once, in the fixed order: the calls
\* made so far are always a prefix of the expected list, and a run that can
\* take no further step has made all of them.
EachModuleExecutedOnce ==
    ValidFlags =>
        /\ IsPrefix(invoked, ExpectedModules)
        /\ (pc # "start" /\ ~ENABLED Next) => invoked = ExpectedModules

\* C1, the part that holds: calls are made in list order, none twice, every
\* call made before the current one has returned, and a run that reaches
\* the report has called every module the flags leave, whatever they returned
InvokedInOrder ==
    ValidFlags =>
        /\ IsPrefix(invoked, ExpectedModules)
        /\ pc \in {"report", "done"} => invoked = ExpectedModules
        /\ pc = "loop" => Len(invoked) = idx - 1 /\ idx <= Len(ExpectedModules)
        /\ \A i \in 1..Len(invoked) :
              results[invoked[i]] = "none" => (pc = "blocked" /\ i = Len(invoked))

(***************************************************************************)
(* C3                                                                      *)
(***************************************************************************)
Finished ==
    /\ pc = "done"
    /\ TheReport.kind = "file"
    /\ Printed(out, BannerLine)

\* C3: every run with a valid flag combination eventually finishes: the
\* report is generated and the success banner printed.
EveryRunFinishes == ValidFlags => <>Finished


(***************************************************************************)
(* C2                                                                      *)
(***************************************************************************)
\* C2: when http_probe, js_discovery or screenshot is executed and its
\* upstream file does not exist, execute() returns failure and the working
\* directory is left exactly as it was.
MissingUpstreamWritesNothing ==
    [][\A m \in DependentModules :
          (Executes /\ modules[idx] = m /\ ~exists(fs, Upstream(m)))
              => (results'[m] = "fail" /\ fs' = fs)]_vars

(***************************************************************************)
(* C4                                                                      *)
(***************************************************************************)
\* C4: a run_cmd whose command exits non-zero returns failure, prints an
\* [ERROR] line, and leaves the destination file as it was (absent, or with
\* its earlier content).
NonZeroExitLeavesNoOutput ==
    [][(Executes /\ launched' # <<>> /\ launched'[1].outcome = "nonzero")
          => LET m == modules[idx]
             IN  /\ results'[m] = "fail"
                 /\ \E i \in DOMAIN out' :
                       out'[i].level = "ERROR" /\ out'[i] = NonZeroLine(m)
                 /\ fs'[Destination(m)] = fs[Destination(m)]]_vars

\* subfinder exited non-zero over a subs.txt left by an earlier run
NonZeroExitSeen ==
    /\ launched # <<>>
    /\ launched[1].cmd.tool = "subfinder"
    /\ launched[1].outcome = "nonzero"
    /\ results["subdomain"] = "fail"
    /\ exists(fs0, "subs.txt")
    /\ fs["subs.txt"] = fs0["subs.txt"]

(***************************************************************************)
(* C5                                                                      *)
(***************************************************************************)
\* C5: when a module's tool is not on PATH, execute() returns failure,
\* launches no subprocess and leaves the working directory as it was; the
\* tool check comes before the dependency check: no skip notice is printed.
MissingToolDoesNothing ==
    [][(Executes /\ ~on_path')
          => LET m == modules[idx]
             IN  /\ results'[m] = "fail"
                 /\ launched' = <<>>
                 /\ fs' = fs
                 /\ \A f \in {"subs.txt", "httpx.txt"} :
                       ~Printed(out', SkipLine(f))]_vars

\* screenshot found gowitness missing while httpx.txt was missing too
MissingToolSeen ==
    /\ invoked # <<>>
    /\ invoked[Len(invoked)] = "screenshot"
    /\ ~on_path
    /\ results["screenshot"] = "fail"
    /\ ~exists(fs, "httpx.txt")
    /\ ~exists(fs, ScreenshotDir)
    /\ launched = <<>>

(***************************************************************************)
(* C6                                                                      *)
(***************************************************************************)
\* C6: with --fast and --deep both given no execute() is ever invoked and no
\* subprocess launched (nothing is touched), whatever the other flags.
ProfileConflictAborts ==
    (args.fast /\ args.deep)
        => /\ pc \in {"start", "aborted"}
           /\ invoked = <<>>
           /\ launched = <<>>
           /\ results = NoResults
           /\ fs = fs0

ProfileConflictSeen ==
    /\ pc = "aborted"
    /\ args.only_subdomains
    /\ args.no_dirs
    /\ Printed(out, ProfileErrorLine)

(***************************************************************************)
(* C7                                                                      *)
(***************************************************************************)
\* C7: once generate_report has run the report holds exactly one section per
\* *.txt file present in the working directory, whichever modules ran; the
\* section of a zero-byte file is the empty marker, that of any other file
\* the file's contents.
ReportMatchesDirectory ==
    pc = "done" =>
        LET rep == TheReport.data IN
        /\ TheReport.kind = "file"
        /\ \A p \in Range(TxtFiles) :
              Cardinality({i \in DOMAIN rep : rep[i].stem = Stem(p)})
                  = IF exists(fs, p) THEN 1 ELSE 0
        /\ \A i \in DOMAIN rep :
              \E p \in TxtPresent :
                  /\ rep[i].stem = Stem(p)
                  /\ rep[i].body = IF fs[p].data = <<>> THEN EmptyMarker
                                   ELSE fs[p].data

\* a report over files none of which the one module of this run wrote
ReportOverOldFilesSeen ==
    /\ pc = "done"
    /\ args.only_subdomains
    /\ results["subdomain"] = "fail"
    /\ exists(fs, "httpx.txt")
    /\ exists(fs, "ports.txt") /\ getsize(fs, "ports.txt") = 0
    /\ Len(TheReport.data) = 3

(***************************************************************************)
(* C8                                                                      *)
(***************************************************************************)
OnlySubdomainsRun == pc = "done" /\ args.only_subdomains /\ StartedEmpty

ReportStems == [i \in DOMAIN TheReport.data |-> TheReport.data[i].stem]

FastProfileIsNarrower ==
    /\ Config([args EXCEPT !.fast = TRUE]).timeout
          < Config([args EXCEPT !.fast = FALSE]).timeout
    /\ port_range(Config([args EXCEPT !.fast = TRUE]))[2]
          < port_range(Config([args EXCEPT !.fast = FALSE]))[2]
    /\ \A i \in DOMAIN launched :
          LET l == launched[i] IN
          l.cmd.tool # "curl" =>
              /\ l.timeout = IF args.fast THEN 60 ELSE 300
              /\ l.cmd.tool = "naabu" =>
                    l.cmd.opts = IF args.fast THEN <<1, 1000>> ELSE <<1, 65535>>

FastPortScanSeen ==
    /\ args.fast
    /\ launched # <<>>
    /\ launched[1].cmd.tool = "naabu"
    /\ launched[1].timeout = 60
    /\ launched[1].cmd.opts = <<1, 1000>>

(***************************************************************************)
(* C10                                                                     *)
(***************************************************************************)
\* C10: a run_cmd subprocess that runs into its timeout is reported by the
\* timeout diagnostic and a failure result, by neither the generic-failure
\* nor the non-zero-exit diagnostic, and its destination file is not written.
TimeoutIsReportedAsTimeout ==
    [][(Executes /\ launched' # <<>> /\ launched'[1].outcome = "timeout")
          => LET m == modules[idx]
             IN  /\ results'[m] = "fail"
                 /\ Printed(out', TimeoutLine(m))
                 /\ ~Printed(out', FailureLine(m))
                 /\ ~Printed(out', NonZeroLine(m))
                 /\ fs'[Destination(m)] = fs[Destination(m)]]_vars

TimeoutSeen ==
    /\ launched # <<>>
    /\ launched[1].cmd.tool = "naabu"
    /\ launched[1].outcome = "timeout"
    /\ results["ports"] = "fail"
    /\ Printed(out, TimeoutLine("ports"))
    /\ ~exists(fs, "ports.txt")


(***************************************************************************)
(* C11                                                                     *)
(***************************************************************************)
\* C11: every subprocess a module launches runs under the configured
\* per-command timeout (60 s under --fast, 300 s otherwise).
EverySubprocessHasTheTimeout ==
    \A i \in DOMAIN launched :
        launched[i].timeout = IF args.fast THEN 60 ELSE 300

(***************************************************************************)
(* C12                                                                     *)
(***************************************************************************)
\* a module's output is absent, or a file of zero bytes
AbsentOrEmpty(p) ==
    \/ ~exists(fs, p)
    \/ fs[p].kind = "file" /\ getsize(fs, p) = 0

\* C12: after a run that started from an empty working directory the output
\* file of every module whose execute() returned failure is absent or empty.
FailedModuleLeavesNoOutput ==
    (pc = "done" /\ StartedEmpty) =>
        \A m \in Range(ModuleNames) :
            results[m] = "fail" => AbsentOrEmpty(output_file(m))

(***************************************************************************)
(* C13                                                                     *)
(***************************************************************************)
\* the modules whose output_file is a *.txt file
TxtModules == Range(ModuleNames) \ {"screenshot"}

\* the report has a section for the module's file, marked empty
MarkedEmpty(m) ==
    \E i \in DOMAIN TheReport.data :
        /\ TheReport.data[i].stem = Stem(output_file(m))
        /\ TheReport.data[i].body = EmptyMarker

\* C13: in the generated report every module that failed or was skipped has
\* its section marked empty, and no module that succeeded has.
MarkerMeansFailure ==
    pc = "done" =>
        \A m \in TxtModules :
            /\ results[m] = "fail" => MarkedEmpty(m)
            /\ results[m] = "ok" => ~MarkedEmpty(m)


(***************************************************************************)
(* C14                                                                     *)
(***************************************************************************)
RECURSIVE SecondTokens(_)
\* the second token of each line that has one, line by line
SecondTokens(text) ==
    IF text = <<>> THEN <<>>
    ELSE (IF Len(Head(text)) >= 2 THEN <<<<Head(text)[2]>>>> ELSE <<>>)
            \o SecondTokens(Tail(text))

ExtractionFailed == Printed(out, Line("ERROR", "Tech extraction failed"))

\* C14: once http_probe has returned success, httpx.txt and tech.txt exist
\* and tech.txt holds, in order, the second token of every httpx.txt line
\* with at least two tokens, and nothing else; when the extraction pass
\* faults, http_probe returns failure with httpx.txt already written from
\* the probe's output.
TechFileHoldsSecondTokens ==
    /\ results["http_probe"] = "ok" =>
          /\ fs["httpx.txt"].kind = "file"
          /\ fs["tech.txt"].kind = "file"
          /\ fs["tech.txt"].data = SecondTokens(fs["httpx.txt"].data)
    /\ ExtractionFailed =>
          /\ results["http_probe"] = "fail"
          /\ launched[1].outcome = "zero"
          /\ fs["httpx.txt"] = File(launched[1].stdout)

\* tags of two tagged lines, in the order of the lines, the untagged line left out
TwoTagsSeen ==
    /\ results["http_probe"] = "ok"
    /\ Len(fs["httpx.txt"].data) = 3
    /\ fs["tech.txt"].data = <<<<"nginx">>, <<"Node.js">>>>


(***************************************************************************)
(* C15                                                                     *)
(***************************************************************************)
\* the latest step ran js_discovery's execute(), which returned, with curl
\* on PATH and httpx.txt present
JsFetchReturned ==
    /\ invoked # <<>>
    /\ invoked[Len(invoked)] = "js_discovery"
    /\ pc # "blocked"
    /\ on_path
    /\ exists(fs, "httpx.txt")

\* the endpoints in the bodies of the fetches that came back
EndpointsFetched ==
    UNION {{launched[i].stdout[k] : k \in {j \in DOMAIN launched[i].stdout :
                                            IsEndpoint(launched[i].stdout[j])}}
           : i \in {j \in DOMAIN launched : launched[j].outcome = "done"}}

\* C15: a js_discovery execute() that returns, its tool and httpx.txt being
\* present, has fetched every httpx.txt line ending in .js, one curl each in
\* order, whether or not earlier fetches raised; endpoints.txt then lists
\* the endpoints found, each once; and it returned success exactly when at
\* least one endpoint was found.
JsDiscoveryFetchesAll ==
    JsFetchReturned =>
        LET urls == SelectSeq(fs["httpx.txt"].data, IsJsLine)
            lines == fs["endpoints.txt"].data
        IN  /\ Len(launched) = Len(urls)
            /\ \A i \in DOMAIN launched : launched[i].cmd = Cmd("curl", urls[i])
            /\ fs["endpoints.txt"].kind = "file"
            /\ \A i, j \in DOMAIN lines : i # j => lines[i] # lines[j]
            /\ {lines[i][1] : i \in DOMAIN lines} = EndpointsFetched
            /\ \A i \in DOMAIN lines : Len(lines[i]) = 1
            /\ results["js_discovery"] = "ok" <=> EndpointsFetched # {}

\* the first fetch raised, the second brought one endpoint twice
FetchAfterFaultSeen ==
    /\ JsFetchReturned
    /\ Len(launched) = 2
    /\ launched[1].outcome = "fault"
    /\ launched[2].outcome = "done"
    /\ launched[2].stdout = <<"/api?id=", "text", "/api?id=">>
    /\ fs["endpoints.txt"].data = <<<<"/api?id=">>>>
    /\ results["js_discovery"] = "ok"


(***************************************************************************)
(* C16                                                                     *)
(***************************************************************************)
\* C16: every run_cmd call returns a boolean, however the subprocess ends
\* (zero or non-zero exit, timeout, a fault launching it, a fault opening
\* the file): execute() returns and main goes on.  run_cmd returns success
\* (its [SUCCESS] line) exactly when the command exited zero and the file
\* was written, and the file then holds the captured standard output; in
\* every other case it prints an [ERROR] line and returns failure.
RunCmdAlwaysReturnsABoolean ==
    [][(Executes /\ launched' # <<>> /\ launched'[1].cmd.tool # "curl")
          => LET m == modules[idx]
                 l == launched'[1]
                 d == Destination(m)
                 succeeded == Printed(out', CompletedLine(m))
             IN  /\ pc' \in {"loop", "report"}
                 /\ results'[m] \in {"ok", "fail"}
                 /\ succeeded <=> l.outcome = "zero"
                 /\ succeeded => fs'[d] = File(l.stdout)
                 /\ ~succeeded =>
                       /\ results'[m] = "fail"
                       /\ l.outcome # "write_fault" => fs'[d] = fs[d]
                       /\ \E i \in DOMAIN out' : out'[i].level = "ERROR"
                 /\ m # "http_probe" => (results'[m] = "ok" <=> succeeded)]_vars

\* arjun exited zero and the file could not be opened
WriteFaultSeen ==
    /\ launched # <<>>
    /\ launched[1].cmd.tool = "arjun"
    /\ launched[1].outcome = "write_fault"
    /\ results["param_discovery"] = "fail"
    /\ Printed(out, FailureLine("param_discovery"))
    /\ pc \in {"loop", "report"}


(***************************************************************************)
(* C17                                                                     *)
(***************************************************************************)
\* the three filters applied to the full list in each of the six orders
FilterOrders ==
    LET o(ms) == only_subdomains_filter(args, ms)
        d(ms) == no_dirs_filter(args, ms)
        s(ms) == no_screenshots_filter(args, ms)
    IN  {s(d(o(ModuleNames))), d(s(o(ModuleNames))), s(o(d(ModuleNames))),
         o(s(d(ModuleNames))), d(o(s(ModuleNames))), o(d(s(ModuleNames)))}

Listed(m) == \E i \in DOMAIN modules : modules[i] = m

\* C17: the executed list is the seven-module list with modules removed and
\* the order kept: [subdomain] alone under --only-subdomains; otherwise
\* dir_bruteforce is missing exactly under --no-dirs, screenshot exactly
\* under --no-screenshots, and nothing else is; the order in which the three
\* filters are applied makes no difference.
ModuleListFollowsFlags ==
    pc \in {"loop", "report", "done", "blocked"} =>
        /\ modules = ExpectedModules
        /\ args.only_subdomains => modules = <<"subdomain">>
        /\ ~args.only_subdomains =>
              /\ Listed("dir_bruteforce") <=> ~args.no_dirs
              /\ Listed("screenshot") <=> ~args.no_screenshots
              /\ \A m \in Range(ModuleNames) \ {"dir_bruteforce", "screenshot"} :
                    Listed(m)
        /\ FilterOrders = {modules}

\* --no-dirs alone: six modules, screenshot still last
NoDirsListSeen ==
    /\ pc = "loop"
    /\ args.no_dirs /\ ~args.no_screenshots /\ ~args.only_subdomains
    /\ modules = <<"subdomain", "ports", "http_probe", "js_discovery",
                   "param_discovery", "screenshot">>


(***************************************************************************)
(* C18                                                                     *)
(***************************************************************************)
\* the module whose run_cmd writes a dependent module's input
Producer(m) == IF m = "http_probe" THEN "subdomain" ELSE "http_probe"

NothingIsDeleted ==
    [][\A p \in Paths :
          exists(fs, p) => exists(fs', p) /\ fs'[p].kind = fs[p].kind]_vars

\* a finished run over an older run's directory: the module that wrote
\* subs.txt before failed this time and the old file is still there, next to
\* files this run added
OldFileKeptSeen ==
    /\ pc = "done"
    /\ exists(fs0, "subs.txt")
    /\ results["subdomain"] = "fail"
    /\ fs["subs.txt"] = fs0["subs.txt"]
    /\ \E p \in Paths : ~exists(fs0, p) /\ exists(fs, p)


(***************************************************************************)
(* C20                                                                     *)
(***************************************************************************)
\* C20: over one output base, two runs against different target strings
\* never get the same working directory.
DifferentTargetsDifferentDirs ==
    \A a, b \in output_dirs : a[1] # b[1] => a[2] # b[2]

=============================================================================
